---- MODULE Spec2Model ----
(***************************************************************************)
(* State-machine model of the photo mapper component                       *)
(* (src/src/ImagePassionMapper.jsx and its variants in src/unnamed):       *)
(* the file selection handlers, the analyzeImages run (concurrent          *)
(* preprocessing, sequential inference loop, result publication) and the   *)
(* retrying HTTP helper exponentialBackoffFetch.                           *)
(*                                                                         *)
(* A step of the model is one run-to-completion segment of the event loop: *)
(* a whole event handler, or the code of an async function between two     *)
(* awaits.                                                                 *)
(***************************************************************************)
EXTENDS Integers, Sequences, FiniteSets, TLC

\* ---------------------------------------------------------------------
\* Program constants
\* ---------------------------------------------------------------------
MAX_FILES == 25

\* the retry bound, one too small
maxRetries_two == 3 - 1

maxRetries == 3

BaseDelayMs == 1000

JitterMs == 500

\* ---------------------------------------------------------------------
\* Bounds of the model
\* ---------------------------------------------------------------------
\* largest selection on which a run is started
MaxBatch == 2

\* largest number of files in one ordinary file-input event
MaxAdd == 1

\* files are added to selections of at most MaxGrow files, or to selections
\* within MaxAdd of the cap
MaxGrow == 2

\* largest selection from which a file is removed
MaxRemoveLen == 3

\* ---------------------------------------------------------------------
\* JavaScript values
\* ---------------------------------------------------------------------
Null == [t |-> "null"]

Undefined == [t |-> "undefined"]

Str(s) == [t |-> "string", v |-> s]

Obj(o) == [t |-> "object", v |-> o]

\* JavaScript truthiness, as used by `||`, `!x` and `if (x)`
Truthy(x) ==
  CASE x.t = "null" -> FALSE
    [] x.t = "undefined" -> FALSE
    [] x.t = "string" -> x.v # ""
    [] x.t = "number" -> x.v # 0
    [] x.t = "boolean" -> x.v
    [] OTHER -> TRUE

\* a || b
Or(a, b) == IF Truthy(a) THEN a ELSE b

Min(a, b) == IF a <= b THEN a ELSE b

\* 2^n
RECURSIVE Pow2(_)
Pow2(n) == IF n = 0 THEN 1 ELSE 2 * Pow2(n - 1)

\* ---------------------------------------------------------------------
\* Files
\* ---------------------------------------------------------------------
ImageType == <<"image", "png">>

TextType == <<"text", "plain">>

\* file.type.startsWith('image/'): a MIME type is <<type, subtype>>
StartsWithImage(type) == type[1] = "image"

MkFile(id, type) == [id |-> id, type |-> type]

\* the messages the component shows
LimitMsg == Str("Maximum of 25 photos allowed. Please select fewer files.")

KeyMissingMsg == Str("API Key Missing! Please set the VITE_GEMINI_API_KEY environment variable.")

VARIABLES
  selectedFiles,   \* useState([]): the current selection
  results,         \* useState([]): the published result list
  loading,         \* useState(false)
  error,           \* useState(null): the user-visible message
  apiKey,          \* VERCEL_EMBEDDED_API_KEY, apiKey in the variants
  variant,         \* which of the three source variants is mounted
  pc,              \* where the run is suspended: idle, preprocess, fetch, delay, json
  batch,           \* the selectedFiles the running analyzeImages closed over
  pre,             \* per file of the batch: Undefined while its preprocessing
                   \* task is pending, then the task's value
  order,           \* indices of the batch in the order their tasks settled
  processedFilesData,
  currentResults,
  i,               \* loop index of analyzeImages (1-based)
  inFlight,        \* indices whose inference call is issued and not merged
  requested,       \* indices for which the run has issued an inference call
  attempt,         \* exponentialBackoffFetch: loop variable
  delay,           \* exponentialBackoffFetch: the timer being awaited (ms)
  outcomes,        \* the outcomes of the fetches of the observed call, in order
  waited,          \* how many backoff delays the observed call has started
  callResult,      \* how the observed call ended, Undefined while it runs
                   \* (the observed call is the latest call of
                   \* exponentialBackoffFetch one of whose fetches has settled)
  observing,       \* whether the run is observed: outcomes, waited,
                   \* callResult, hadResults and publications are recorded
                   \* only if so
  hadResults,      \* the run was started with terminal items of an earlier
                   \* run in results
  publications     \* how many times the run has called setResults

selVars == <<selectedFiles, results, loading, error, apiKey, variant, observing>>
runVars == <<pc, batch, pre, order, processedFilesData, currentResults, i, inFlight, requested>>
callVars == <<attempt, delay>>
obsVars == <<outcomes, waited, callResult>>
fetchVars == <<callVars, obsVars>>
runObsVars == <<hadResults, publications>>
vars == <<selVars, runVars, fetchVars, runObsVars>>

\* ---------------------------------------------------------------------
\* Initial state: the component as mounted
\* ---------------------------------------------------------------------
\* import.meta.env.VITE_GEMINI_API_KEY || ''
ApiKeys == {Str(""), Str("key")}

\* the component of src/src/ImagePassionMapper.jsx, and the two of
\* src/unnamed/part_000 (lines 1-482 and 484-960)
Variants == {"primary", "noexif", "summit"}

\* the credential a variant is built with: the environment's in the primary
\* variant, `const apiKey = ""` in the other two
KeysOf(v) == IF v = "primary" THEN ApiKeys ELSE {Str("")}

\* whether analyzeImages of the variant has `if (!currentApiKey) {...; return}`
HasKeyCheck(v) == v = "primary"

Mounted ==
  /\ selectedFiles = <<>>
  /\ results = <<>>
  /\ loading = FALSE
  /\ error = Null
  /\ apiKey \in ApiKeys
  /\ pc = "idle"
  /\ batch = <<>>
  /\ pre = <<>>
  /\ order = <<>>
  /\ processedFilesData = <<>>
  /\ currentResults = <<>>
  /\ i = 0
  /\ inFlight = {}
  /\ requested = {}
  /\ attempt = 0
  /\ delay = 0
  /\ outcomes = <<>>
  /\ waited = 0
  /\ callResult = Undefined
  /\ hadResults = FALSE
  /\ publications = 0

Init == Mounted /\ variant = "primary" /\ observing = FALSE

InitCalls == Mounted /\ variant = "primary" /\ observing = TRUE

\* any of the three variants, mounted with its credential
InitVariants ==
  /\ Mounted
  /\ variant \in Variants
  /\ apiKey \in KeysOf(variant)
  /\ observing = FALSE

\* ---------------------------------------------------------------------
\* File intake
\* ---------------------------------------------------------------------
Range(s) == {s[k] : k \in 1..Len(s)}

\* the terminal items of a result list
Terminal(rs) == {k \in 1..Len(rs) : ~rs[k].processing}

\* ids of the File objects the component still refers to
UsedIds ==
  {f.id : f \in Range(selectedFiles)} \cup {f.id : f \in Range(batch)}
    \cup {r.file.id : r \in Range(results)}

\* the k smallest ids >= n outside used, ascending: the File objects of a
\* new input event are objects the component has never seen
RECURSIVE FreshFrom(_, _, _)
FreshFrom(used, n, k) ==
  IF k = 0 THEN <<>>
  ELSE IF n \in used THEN FreshFrom(used, n + 1, k)
  ELSE <<n>> \o FreshFrom(used, n + 1, k - 1)

\* k new image files
Images(k) ==
  LET ids == FreshFrom(UsedIds, 1, k)
  IN [j \in 1..k |-> MkFile(ids[j], ImageType)]

\* a file that is not an image
TextFile == MkFile(0, TextType)

\* numbers of image files in one input event: a few, or about the cap
AddCounts == (0..MaxAdd) \cup {MAX_FILES - 1, MAX_FILES, MAX_FILES + 1}

\* event.target.files of the input events that are tried
FileLists ==
  {Images(k) : k \in AddCounts}
    \cup {<<TextFile>> \o Images(1), Images(1) \o <<TextFile>>, <<TextFile>>}

\* an over-cap addition truncated into the selection instead of rejected
handleFileChange_truncate(files) ==
  LET newFiles == SelectSeq(files, LAMBDA f : StartsWithImage(f.type))
      all == selectedFiles \o newFiles
      updated == SubSeq(all, 1, Min(Len(all), MAX_FILES))
  IN /\ error' = IF Len(all) > MAX_FILES THEN LimitMsg ELSE Null
     /\ selectedFiles' = updated
     /\ results' = IF Len(selectedFiles) # Len(updated) THEN <<>> ELSE results

\* the handler without the filter on file.type
handleFileChange_noFilter(files) ==
  IF Len(selectedFiles) + Len(files) > MAX_FILES
  THEN /\ error' = LimitMsg
       /\ UNCHANGED <<selectedFiles, results>>
  ELSE LET all == selectedFiles \o files
           updated == SubSeq(all, 1, Min(Len(all), MAX_FILES))
       IN /\ error' = Null
          /\ selectedFiles' = updated
          /\ results' = IF Len(selectedFiles) # Len(updated) THEN <<>> ELSE results

\* the handler without the cap: no length check, no slice(0, MAX_FILES)
handleFileChange_uncapped(files) ==
  LET newFiles == SelectSeq(files, LAMBDA f : StartsWithImage(f.type))
      updated == selectedFiles \o newFiles
  IN /\ error' = Null
     /\ selectedFiles' = updated
     /\ results' = IF Len(selectedFiles) # Len(updated) THEN <<>> ELSE results

\* the updater without `if (prev.length !== updated.length) setResults([])`
handleFileChange_keepResults(files) ==
  LET newFiles == SelectSeq(files, LAMBDA f : StartsWithImage(f.type))
  IN IF Len(selectedFiles) + Len(newFiles) > MAX_FILES
     THEN /\ error' = LimitMsg
          /\ UNCHANGED <<selectedFiles, results>>
     ELSE LET all == selectedFiles \o newFiles
              updated == SubSeq(all, 1, Min(Len(all), MAX_FILES))
          IN /\ error' = Null
             /\ selectedFiles' = updated
             /\ UNCHANGED results

handleFileChange(files) ==
  LET newFiles == SelectSeq(files, LAMBDA f : StartsWithImage(f.type))
  IN IF Len(selectedFiles) + Len(newFiles) > MAX_FILES
     THEN /\ error' = LimitMsg
          /\ UNCHANGED <<selectedFiles, results>>
     ELSE LET all == selectedFiles \o newFiles
              updated == SubSeq(all, 1, Min(Len(all), MAX_FILES))
          IN /\ error' = Null
             /\ selectedFiles' = updated
             /\ results' = IF Len(selectedFiles) # Len(updated) THEN <<>> ELSE results

\* The locals of an analyzeImages that has returned are unreachable: the
\* model keeps them in the state the run settles in and drops them at the
\* next event.
Collect ==
  IF pc = "idle"
  THEN /\ batch' = <<>>
       /\ pre' = <<>>
       /\ order' = <<>>
       /\ processedFilesData' = <<>>
       /\ currentResults' = <<>>
       /\ i' = 0
       /\ inFlight' = {}
       /\ requested' = {}
       /\ attempt' = 0
       /\ delay' = 0
       /\ outcomes' = <<>>
       /\ waited' = 0
       /\ callResult' = Undefined
       /\ hadResults' = FALSE
       /\ publications' = 0
       /\ UNCHANGED pc
  ELSE UNCHANGED <<runVars, fetchVars, runObsVars>>

\* an input event of the file input
HandleFileChange(files) ==
  /\ Len(selectedFiles) <= MaxGrow \/ Len(selectedFiles) >= MAX_FILES - MaxAdd
  /\ handleFileChange(files)
  /\ Collect
  /\ UNCHANGED <<loading, apiKey, variant, observing>>

\* prev.slice(0, indexToRemove): the files after the position go too
FilterOut_slice(prev, indexToRemove) == SubSeq(prev, 1, indexToRemove)

\* prev.filter((_, i) => i !== indexToRemove), indexToRemove 0-based
FilterOut(prev, indexToRemove) ==
  LET keep == {k \in 1..Len(prev) : k - 1 # indexToRemove}
      F[k \in 0..Len(prev)] ==
        IF k = 0 THEN <<>>
        ELSE IF k \in keep THEN Append(F[k - 1], prev[k]) ELSE F[k - 1]
  IN F[Len(prev)]

\* the guard on loading around the filter only: results are emptied anyway
removeFile_guardFilterOnly(indexToRemove) ==
  /\ selectedFiles' = IF loading THEN selectedFiles
                      ELSE FilterOut(selectedFiles, indexToRemove)
  /\ results' = <<>>

\* removeFile without `if (loading) return`
removeFile_unguarded(indexToRemove) ==
  /\ selectedFiles' = FilterOut(selectedFiles, indexToRemove)
  /\ results' = <<>>

removeFile(indexToRemove) ==
  IF loading
  THEN UNCHANGED <<selectedFiles, results>>
  ELSE /\ selectedFiles' = FilterOut(selectedFiles, indexToRemove)
       /\ results' = <<>>

\* the remove button of the preview at position indexToRemove
RemoveFile(indexToRemove) ==
  /\ Len(selectedFiles) <= MaxRemoveLen
  /\ indexToRemove \in 0..(Len(selectedFiles) - 1)
  /\ removeFile(indexToRemove)
  /\ Collect
  /\ UNCHANGED <<loading, error, apiKey, variant, observing>>

\* ---------------------------------------------------------------------
\* The inference loop of analyzeImages
\* ---------------------------------------------------------------------
\* the loop without `if (pf.error) continue`
NextItem_noSkip(pfd, k) == IF k <= Len(pfd) THEN k ELSE 0

\* `break` for `continue`: the loop stops at the first item that carries a
\* preprocessing error
NextItem_break(pfd, k) ==
  IF \E j \in k..Len(pfd) : Truthy(pfd[j].error)
  THEN LET bad == CHOOSE j \in k..Len(pfd) :
                    /\ Truthy(pfd[j].error)
                    /\ \A m \in k..(j - 1) : ~Truthy(pfd[m].error)
       IN IF bad = k THEN 0 ELSE k
  ELSE IF k <= Len(pfd) THEN k ELSE 0

\* the first index >= k whose item carries no preprocessing error
\* (`if (pf.error) continue`), 0 when the loop runs off the end
NextItem(pfd, k) ==
  LET rest == {j \in k..Len(pfd) : ~Truthy(pfd[j].error)}
  IN IF rest = {} THEN 0 ELSE CHOOSE j \in rest : \A m \in rest : j <= m

\* no await on the call: the calls of all remaining items start at once
Issued_all(pfd, j) == {m \in j..Len(pfd) : ~Truthy(pfd[m].error)}

\* the inference calls started when the loop arrives at item j: the loop
\* awaits the call of item j before it goes on
Issued(pfd, j) == {j}

\* analyzeImages without its last statement, setLoading(false)
Loop_noSetLoading(pfd, cr, k, fl) ==
  LET j == NextItem(pfd, k)
  IN /\ currentResults' = cr
     /\ UNCHANGED loading
     /\ IF j = 0
        THEN /\ pc' = "idle"
             /\ i' = Len(pfd) + 1
             /\ inFlight' = fl
             /\ attempt' = 0
             /\ delay' = 0
             /\ UNCHANGED requested
        ELSE /\ pc' = "fetch"
             /\ i' = j
             /\ inFlight' = fl \cup Issued(pfd, j)
             /\ requested' = requested \cup Issued(pfd, j)
             /\ attempt' = 0
             /\ delay' = 0

\* the for loop from index k on, up to its next await or to its end;
\* cr is currentResults and fl the calls still in flight
Loop(pfd, cr, k, fl) ==
  LET j == NextItem(pfd, k)
  IN /\ currentResults' = cr
     /\ IF j = 0
        THEN /\ loading' = FALSE
             /\ pc' = "idle"
             /\ i' = Len(pfd) + 1
             /\ inFlight' = fl
             /\ attempt' = 0
             /\ delay' = 0
             /\ UNCHANGED requested
        ELSE /\ pc' = "fetch"
             /\ i' = j
             /\ inFlight' = fl \cup Issued(pfd, j)
             /\ requested' = requested \cup Issued(pfd, j)
             /\ attempt' = 0
             /\ delay' = 0
             /\ UNCHANGED loading

\* one more call of setResults by the run, counted when the run is observed
Counted ==
  IF observing THEN publications' = publications + 1 ELSE UNCHANGED publications

\* the loop that does not advance: after the merge of item i it comes
\* back to item i
Merge_sameItem(data, err) ==
  LET cr == [currentResults EXCEPT
               ![i] = [@ EXCEPT !.data = data, !.error = err, !.processing = FALSE]]
  IN /\ results' = cr
     /\ Counted
     /\ Loop(processedFilesData, cr, i, inFlight \ {i})

\* setResults([...currentResults]) after the loop instead of in its body
Merge_publishAtEnd(data, err) ==
  LET cr == [currentResults EXCEPT
               ![i] = [@ EXCEPT !.data = data, !.error = err, !.processing = FALSE]]
      last == NextItem(processedFilesData, i + 1) = 0
  IN /\ results' = IF last THEN cr ELSE results
     /\ IF last THEN Counted ELSE UNCHANGED publications
     /\ Loop(processedFilesData, cr, i + 1, inFlight \ {i})

\* the merge without `processing: false`
Merge_stillProcessing(data, err) ==
  LET cr == [currentResults EXCEPT
               ![i] = [@ EXCEPT !.data = data, !.error = err]]
  IN /\ results' = cr
     /\ Counted
     /\ Loop(processedFilesData, cr, i + 1, inFlight \ {i})

\* currentResults[i] = {...currentResults[i], data, error, processing: false};
\* setResults([...currentResults]); then the loop goes on
Merge(data, err) ==
  LET cr == [currentResults EXCEPT
               ![i] = [@ EXCEPT !.data = data, !.error = err, !.processing = FALSE]]
  IN /\ results' = cr
     /\ Counted
     /\ Loop(processedFilesData, cr, i + 1, inFlight \ {i})

\* a loop body without its catch: the error leaves analyzeImages, nothing
\* after the throw runs
CatchFileError_uncaught(fileError) ==
  /\ UNCHANGED <<results, loading, currentResults, i, requested, publications>>
  /\ pc' = "idle"
  /\ inFlight' = {}
  /\ attempt' = 0
  /\ delay' = 0

\* catch (fileError) of the loop body
CatchFileError(fileError) ==
  Merge(Null, Or(fileError.message, Str("File processing failed")))

\* ---------------------------------------------------------------------
\* analyzeImages: start and preprocessing
\* ---------------------------------------------------------------------
\* the first line of analyzeImages without `|| loading`
NothingToDo_ignoresLoading == Len(selectedFiles) = 0

\* `if (selectedFiles.length === 0 || loading) return;`
NothingToDo == Len(selectedFiles) = 0 \/ loading

analyzeImages ==
  IF NothingToDo
  THEN /\ UNCHANGED selVars
       /\ Collect
  ELSE IF HasKeyCheck(variant) /\ ~Truthy(apiKey)
  THEN /\ error' = KeyMissingMsg
       /\ Collect
       /\ UNCHANGED <<selectedFiles, results, loading, apiKey, variant, observing>>
  ELSE /\ loading' = TRUE
       /\ error' = Null
       /\ batch' = selectedFiles
       /\ pre' = [k \in 1..Len(selectedFiles) |-> Undefined]
       /\ order' = <<>>
       /\ pc' = "preprocess"
       /\ processedFilesData' = <<>>
       /\ currentResults' = <<>>
       /\ i' = 0
       /\ inFlight' = {}
       /\ requested' = {}
       /\ attempt' = 0
       /\ delay' = 0
       /\ outcomes' = <<>>
       /\ waited' = 0
       /\ callResult' = Undefined
       /\ hadResults' = (observing /\ Terminal(results) # {})
       /\ publications' = 0
       /\ UNCHANGED <<selectedFiles, results, apiKey, variant, observing>>

\* a click on the Analyze button
AnalyzeImages ==
  /\ Len(selectedFiles) <= MaxBatch
  /\ analyzeImages

B64(file) == [t |-> "string", v |-> "base64", of |-> file.id]

\* how the preprocessing of one file ends: the payload is read, or the
\* read fails with an error that has a message or has none
PreOutcomes ==
  {[ok |-> TRUE],
   [ok |-> FALSE, message |-> Undefined],
   [ok |-> FALSE, message |-> Str("lat.toFixed is not a function")]}

\* the value of one task of selectedFiles.map(async (file) => ...)
Preprocessed(file, out) ==
  IF out.ok
  THEN [file |-> file, base64Data |-> B64(file), metadata |-> Obj("metadata"),
        metadataContext |-> Str("metadataContext"), error |-> Null]
  ELSE [file |-> file, base64Data |-> Null, metadata |-> Null,
        metadataContext |-> Null,
        error |-> Or(out.message, Str("Failed to read file"))]

\* the values of the tasks in the order in which they settled
PromiseAll_settleOrder(p, ord) == [k \in 1..Len(p) |-> p[ord[k]]]

\* Promise.all: the values of the tasks p, by position, whatever the
\* order ord in which they settled
PromiseAll(p, ord) == p

\* an initial list that keeps the entry results already has for a file
InitialResults_carryOver(pfd) ==
  [k \in 1..Len(pfd) |->
     IF k <= Len(results) /\ results[k].file = pfd[k].file
     THEN results[k]
     ELSE [file |-> pfd[k].file, data |-> Null, error |-> pfd[k].error,
           processing |-> ~Truthy(pfd[k].error), metadata |-> pfd[k].metadata]]

InitialResults(pfd) ==
  [k \in 1..Len(pfd) |->
     [file |-> pfd[k].file, data |-> Null, error |-> pfd[k].error,
      processing |-> ~Truthy(pfd[k].error), metadata |-> pfd[k].metadata]]

\* analyzeImages without `setResults(initialResults)`: the first list the
\* run publishes is the one after its first inference call
PublishInitial_omitted(initialResults) == UNCHANGED <<results, publications>>

\* setResults(initialResults), before the loop
PublishInitial(initialResults) == results' = initialResults /\ Counted

\* the preprocessing task of file k settles; when it is the last one,
\* Promise.all resolves, the initial results are published and the loop starts
PreprocessSettle(k, out) ==
  /\ pc = "preprocess"
  /\ k \in 1..Len(pre)
  /\ pre[k] = Undefined
  /\ LET p == [pre EXCEPT ![k] = Preprocessed(batch[k], out)]
         ord == Append(order, k)
     IN /\ pre' = p
        /\ order' = ord
        /\ IF \E j \in 1..Len(p) : p[j] = Undefined
           THEN UNCHANGED <<selVars, runObsVars, pc, batch, processedFilesData, currentResults,
                            i, inFlight, requested, fetchVars>>
           ELSE LET pfd == PromiseAll(p, ord)
                    initialResults == InitialResults(pfd)
                IN /\ processedFilesData' = pfd
                   /\ PublishInitial(initialResults)
                   /\ Loop(pfd, initialResults, 1, {})
                   /\ UNCHANGED <<selectedFiles, error, apiKey, variant, observing, hadResults, batch,
                                  obsVars>>

\* ---------------------------------------------------------------------
\* exponentialBackoffFetch
\* ---------------------------------------------------------------------
Response(status) == [kind |-> "response", status |-> status]

NetworkError == [kind |-> "reject", message |-> Str("Failed to fetch")]

\* response.ok
Ok(r) == r.kind = "response" /\ r.status \in 200..299

\* what one fetch() can produce
FetchOutcomes == {Response(200), Response(429), Response(500), NetworkError}

\* the error an attempt throws: its message, and the attempt that made it
StatusError(status, a) ==
  [message |-> Str("API call failed with status: " \o ToString(status)), attempt |-> a]

TransportError(r, a) == [message |-> r.message, attempt |-> a]

ThrownBy(r, a) ==
  IF r.kind = "response" THEN StatusError(r.status, a) ELSE TransportError(r, a)

\* Math.random() * 500 at its extremes
Jitters == {0, JitterMs - 1}

\* a backoff that does not double: 1000 + Math.random() * 500
Backoff_constant(a, jitter) == BaseDelayMs + jitter

\* Math.pow(2, attempt) * 1000 + Math.random() * 500
Backoff(a, jitter) == Pow2(a) * BaseDelayMs + jitter

\* `response.status === 429 && attempt < maxRetries - 1`
RetriesStatus(r, a) == r.status = 429 /\ a < maxRetries - 1

\* a catch block that rethrows at once
RetriesError_never(a) == FALSE

\* a catch block that never rethrows
RetriesError_always(a) == TRUE

\* the catch block: rethrow on the last attempt, else back off and retry
RetriesError(a) == a # maxRetries - 1

\* the record of the observed call becomes o, w, c
Observe(o, w, c) ==
  IF observing
  THEN outcomes' = o /\ waited' = w /\ callResult' = c
  ELSE UNCHANGED obsVars

\* the awaited fetch settles with outcome r
FetchSettle(r, jitter) ==
  LET seen == IF attempt = 0 THEN <<r>> ELSE Append(outcomes, r)
      slept == IF attempt = 0 THEN 0 ELSE waited
  IN
  /\ pc = "fetch"
  /\ IF Ok(r)
     THEN \* return response; the caller awaits response.json()
          /\ pc' = "json"
          /\ Observe(seen, slept, [t |-> "resolved", response |-> r])
          /\ UNCHANGED <<selVars, runObsVars, batch, pre, order, processedFilesData,
                         currentResults, i, inFlight, requested, callVars>>
     ELSE IF (r.kind = "response" /\ RetriesStatus(r, attempt))
               \/ RetriesError(attempt)
     THEN \* await new Promise(resolve => setTimeout(resolve, delay))
          /\ pc' = "delay"
          /\ delay' = Backoff(attempt, jitter)
          /\ Observe(seen, slept + 1, Undefined)
          /\ UNCHANGED <<selVars, runObsVars, batch, pre, order, processedFilesData,
                         currentResults, i, inFlight, requested, attempt>>
     ELSE \* throw error; the caller's catch records it and the loop goes on
          /\ CatchFileError(ThrownBy(r, attempt))
          /\ Observe(seen, slept, [t |-> "rejected", error |-> ThrownBy(r, attempt)])
          /\ UNCHANGED <<selectedFiles, error, apiKey, variant, observing, hadResults, batch, pre, order,
                         processedFilesData>>

\* the backoff timer fires: attempt++, and the next fetch is issued; a loop
\* that ran off its end would return undefined, on which response.json() throws
DelayElapsed ==
  /\ pc = "delay"
  /\ IF attempt + 1 < maxRetries
     THEN /\ pc' = "fetch"
          /\ attempt' = attempt + 1
          /\ delay' = 0
          /\ UNCHANGED <<selVars, runObsVars, batch, pre, order, processedFilesData,
                         currentResults, i, inFlight, requested, obsVars>>
     ELSE /\ CatchFileError([message |->
                 Str("Cannot read properties of undefined (reading 'json')")])
          /\ Observe(outcomes, waited, [t |-> "resolved", response |-> Undefined])
          /\ UNCHANGED <<selectedFiles, error, apiKey, variant, observing, hadResults, batch, pre, order,
                         processedFilesData>>

\* ---------------------------------------------------------------------
\* The response body
\* ---------------------------------------------------------------------
PartyText ==
  "{\"description\":\"Party\",\"matchedPassions\":[{\"passionName\":\"DJ Sets\",\"confidence\":\"High\"}]}"

PartyObject ==
  Obj([description |-> "Party",
       matchedPassions |-> <<[passionName |-> "DJ Sets", confidence |-> "High"]>>])

\* the tokens of a JSON text
Punct(c) == [k |-> "punct", v |-> c]

StrTok(chars) == [k |-> "string", v |-> chars]

NumTok(n) == [k |-> "number", v |-> n]

Word(w) == [k |-> "word", v |-> w]

\* the texts that are tried, as the tokens they are made of
Tokens(text) ==
  CASE text = PartyText ->
         <<Punct("{"), StrTok("description"), Punct(":"), StrTok("Party"),
           Punct(","), StrTok("matchedPassions"), Punct(":"), Punct("["),
           Punct("{"), StrTok("passionName"), Punct(":"), StrTok("DJ Sets"),
           Punct(","), StrTok("confidence"), Punct(":"), StrTok("High"),
           Punct("}"), Punct("]"), Punct("}")>>
    [] text = "{\"vibe\":1}" ->
         <<Punct("{"), StrTok("vibe"), Punct(":"), NumTok(1), Punct("}")>>
    [] text = "null" -> <<Word("null")>>
    [] text = "Sorry, I cannot" ->
         <<Word("Sorry"), Punct(","), Word("I"), Word("cannot")>>
    [] OTHER -> <<>>

IsPunct(t, c) == t.k = "punct" /\ t.v = c

ParseFails == [ok |-> FALSE]

Parsed(kind, value, rest) == [ok |-> TRUE, kind |-> kind, value |-> value, rest |-> rest]

\* the JSON grammar over tokens: value, then the members of an object and
\* the elements of an array after the ones in acc; the result is the value
\* and the tokens left
RECURSIVE ParseValue(_), ParseMembers(_, _), ParseElements(_, _)
ParseValue(ts) ==
  IF ts = <<>> THEN ParseFails
  ELSE LET t == Head(ts)
       IN IF t.k = "string" THEN Parsed("string", t.v, Tail(ts))
          ELSE IF t.k = "number" THEN Parsed("number", t.v, Tail(ts))
          ELSE IF t.k = "word"
          THEN IF t.v = "null" THEN Parsed("null", Null, Tail(ts))
               ELSE IF t.v = "true" THEN Parsed("boolean", TRUE, Tail(ts))
               ELSE IF t.v = "false" THEN Parsed("boolean", FALSE, Tail(ts))
               ELSE ParseFails
          ELSE IF IsPunct(t, "{")
          THEN IF Len(ts) >= 2 /\ IsPunct(ts[2], "}")
               THEN Parsed("object", <<>>, SubSeq(ts, 3, Len(ts)))
               ELSE ParseMembers(Tail(ts), <<>>)
          ELSE IF IsPunct(t, "[")
          THEN IF Len(ts) >= 2 /\ IsPunct(ts[2], "]")
               THEN Parsed("array", <<>>, SubSeq(ts, 3, Len(ts)))
               ELSE ParseElements(Tail(ts), <<>>)
          ELSE ParseFails

ParseMembers(ts, acc) ==
  IF Len(ts) < 4 \/ ts[1].k # "string" \/ ~IsPunct(ts[2], ":") THEN ParseFails
  ELSE LET member == ParseValue(SubSeq(ts, 3, Len(ts)))
       IN IF ~member.ok \/ member.rest = <<>> THEN ParseFails
          ELSE LET object == (ts[1].v :> member.value) @@ acc
                   next == Head(member.rest)
               IN IF IsPunct(next, ",") THEN ParseMembers(Tail(member.rest), object)
                  ELSE IF IsPunct(next, "}")
                  THEN Parsed("object", object, Tail(member.rest))
                  ELSE ParseFails

ParseElements(ts, acc) ==
  LET element == ParseValue(ts)
  IN IF ~element.ok \/ element.rest = <<>> THEN ParseFails
     ELSE LET array == Append(acc, element.value)
              next == Head(element.rest)
          IN IF IsPunct(next, ",") THEN ParseElements(Tail(element.rest), array)
             ELSE IF IsPunct(next, "]")
             THEN Parsed("array", array, Tail(element.rest))
             ELSE ParseFails

\* the parsed value as a JavaScript value
ToJS(parsed) ==
  IF parsed.kind = "null" THEN Null
  ELSE IF parsed.kind = "object" THEN Obj(parsed.value)
  ELSE [t |-> parsed.kind, v |-> parsed.value]

\* JSON.parse that returns its argument
JSONparse_unparsed(text) == [ok |-> TRUE, value |-> Str(text)]

\* JSON.parse: the value the whole text stands for, or the SyntaxError
JSONparse(text) ==
  LET parsed == ParseValue(Tokens(text))
  IN IF parsed.ok /\ parsed.rest = <<>>
     THEN [ok |-> TRUE, value |-> ToJS(parsed)]
     ELSE [ok |-> FALSE,
           error |-> [message |-> Str("Unexpected token in JSON")]]

\* an apiResult, by what the loop body reads of it:
\* candidates?.[0]?.content?.parts?.[0]?.text, error?.message,
\* error?.details?.[0]?.message
ApiResult(text, message, detail) ==
  [kind |-> "value", text |-> text, message |-> message, detail |-> detail]

\* what `await response.json()` can produce
Bodies ==
  {ApiResult(Str(t), Undefined, Undefined) :
     t \in {PartyText, "{\"vibe\":1}", "null", "Sorry, I cannot", ""}}
    \cup {ApiResult(Undefined, m, d) :
            m \in {Undefined, Str(""), Str("quota exceeded")},
            d \in {Undefined, Str("detail")}}
    \cup {[kind |-> "null"],
          [kind |-> "reject", message |-> Str("Unexpected end of JSON input")]}

\* the two messages of the body tried in the other order
errorMessage_detailsFirst(body) ==
  Or(body.detail, Or(body.message, Str("Model response was empty or malformed.")))

\* apiResult.error?.message || apiResult.error?.details?.[0]?.message
\*   || "Model response was empty or malformed."
errorMessage(body) ==
  Or(body.message, Or(body.detail, Str("Model response was empty or malformed.")))

\* the awaited response.json() settles with body
JsonSettle(body) ==
  /\ pc = "json"
  /\ IF body.kind = "reject"
     THEN CatchFileError(body)
     ELSE IF body.kind = "null"
     THEN CatchFileError([message |->
            Str("Cannot read properties of null (reading 'candidates')")])
     ELSE IF Truthy(body.text)
     THEN LET parsed == JSONparse(body.text.v)
          IN IF parsed.ok
             THEN Merge(parsed.value, Null)
             ELSE CatchFileError(parsed.error)
     ELSE Merge(Null, errorMessage(body))
  /\ UNCHANGED <<selectedFiles, error, apiKey, variant, observing, hadResults, batch, pre, order,
                 processedFilesData, obsVars>>

\* ---------------------------------------------------------------------
\* What the component renders of results
\* ---------------------------------------------------------------------
\* !result.processing && (result.data || result.error): the item is shown
\* as a card
Rendered(r) == ~r.processing /\ (Truthy(r.data) \/ Truthy(r.error))

\* results.filter(r => !r.processing && (r.data || r.error)).length
numProcessed == Cardinality({k \in 1..Len(results) : Rendered(results[k])})

\* ---------------------------------------------------------------------
\* The component
\* ---------------------------------------------------------------------
Next ==
  \/ \E files \in FileLists : HandleFileChange(files)
  \/ \E indexToRemove \in 0..(MaxRemoveLen - 1) : RemoveFile(indexToRemove)
  \/ AnalyzeImages
  \/ \E k \in 1..(MaxBatch + 1), out \in PreOutcomes : PreprocessSettle(k, out)
  \/ \E r \in FetchOutcomes, jitter \in Jitters : FetchSettle(r, jitter)
  \/ DelayElapsed
  \/ \E body \in Bodies : JsonSettle(body)

Spec == Init /\ [][Next]_vars

\* The component with its calls observed, under a user who selects files
\* once and then only runs the analysis.
NextCalls ==
  \/ \E k \in 1..MaxBatch : selectedFiles = <<>> /\ HandleFileChange(Images(k))
  \/ AnalyzeImages
  \/ \E k \in 1..(MaxBatch + 1), out \in PreOutcomes : PreprocessSettle(k, out)
  \/ \E r \in FetchOutcomes, jitter \in Jitters : FetchSettle(r, jitter)
  \/ DelayElapsed
  \/ \E body \in Bodies : JsonSettle(body)

SpecCalls == InitCalls /\ [][NextCalls]_vars

\* Each of the three variants, under the same user.
SpecVariants == InitVariants /\ [][NextCalls]_vars

\* a step of the run in progress: a file read, a fetch, a backoff timer or
\* the read of a response body settles
RunStep ==
  \/ \E k \in 1..(MaxBatch + 1), out \in PreOutcomes : PreprocessSettle(k, out)
  \/ \E r \in FetchOutcomes, jitter \in Jitters : FetchSettle(r, jitter)
  \/ DelayElapsed
  \/ \E body \in Bodies : JsonSettle(body)

\* The three variants where whatever the run awaits settles in the end.
SpecSettling == InitVariants /\ [][NextCalls]_vars /\ WF_vars(RunStep)

\* ---------------------------------------------------------------------
\* Properties
\* ---------------------------------------------------------------------
Card(S) == Cardinality(S)

\* a run is between its initial publication and its return
Publishing == pc \in {"fetch", "delay", "json"}

\* the run has settled and no event has happened since
Settled == pc = "idle" /\ batch # <<>>

ItemTerminal(r) ==
  /\ ~r.processing
  /\ r.data # Null => r.error = Null

\* C1: once a run has settled, every item of the published results, and of
\* the list the run ended with, is terminal (done or error, never both) and
\* none has processing = true.
C1_SettledItemsTerminal ==
  /\ ~loading => \A k \in 1..Len(results) : ItemTerminal(results[k])
  /\ Settled => /\ Len(currentResults) = Len(batch)
                /\ \A k \in 1..Len(currentResults) : ItemTerminal(currentResults[k])

C1_Witness ==
  /\ Settled
  /\ Len(results) = 2
  /\ Truthy(results[1].error)
  /\ results[2].data = PartyObject

Rep(r, k) == [j \in 1..k |-> r]

AllAre(seq, r) == \A j \in 1..Len(seq) : seq[j] = r

\* the call whose fetches `outcomes` lists is still running
CallRunning == callResult = Undefined /\ pc \in {"fetch", "delay"}

\* C2: a call that has seen only 429 responses, fewer than 3 of them, goes on
\* to another attempt; and when the response after k < 3 such responses is
\* ok, the call resolves with that response, having made exactly k + 1 attempts.
C2_Retries429 ==
  /\ (outcomes # <<>> /\ Len(outcomes) < 3 /\ AllAre(outcomes, Response(429)))
       => CallRunning
  /\ \A k \in 0..2 :
       outcomes = Rep(Response(429), k) \o <<Response(200)>>
         => /\ callResult = [t |-> "resolved", response |-> Response(200)]
            /\ (pc = "json" => attempt + 1 = k + 1)

C2_Witness ==
  /\ outcomes = <<Response(429), Response(429), Response(200)>>
  /\ callResult = [t |-> "resolved", response |-> Response(200)]
  /\ pc = "json"
  /\ attempt = 2

\* C3: when the first response is a non-ok status other than 429, the call
\* fails at once: one fetch attempt, no backoff delay.
C3_NoRetryOnOtherStatus ==
  (outcomes # <<>> /\ outcomes[1] = Response(500))
    => /\ Len(outcomes) = 1
       /\ waited = 0
       /\ callResult.t = "rejected"

\* the message of the error a fetch outcome makes the call throw
MessageOf(r) ==
  IF r.kind = "reject" THEN r.message
  ELSE IF r.status = 429 THEN Str("API call failed with status: 429")
  ELSE Str("API call failed with status: 500")

\* C4: a call makes at most 3 fetch attempts, and a call whose 3 attempts all
\* went without an ok response rejects with the error of the third attempt.
C4_AtMostThreeLastError ==
  /\ Len(outcomes) <= 3
  /\ attempt <= 2
  /\ waited <= 2
  /\ (Len(outcomes) = 3 /\ ~Ok(outcomes[3]))
       => /\ callResult.t = "rejected"
          /\ callResult.error.attempt = 2
          /\ callResult.error.message = MessageOf(outcomes[3])

C4_Witness ==
  /\ outcomes = <<Response(500), NetworkError, Response(429)>>
  /\ callResult.t = "rejected"
  /\ callResult.error.message = Str("API call failed with status: 429")

\* C5: a call whose fetches have all been rejected, fewer than 3 of them, goes
\* on to another attempt; and when the fetch after k < 3 rejections returns an
\* ok response, the call resolves with it after exactly k + 1 attempts.
C5_RetriesTransportFailure ==
  /\ (outcomes # <<>> /\ Len(outcomes) < 3 /\ AllAre(outcomes, NetworkError))
       => CallRunning
  /\ \A k \in 0..2 :
       outcomes = Rep(NetworkError, k) \o <<Response(200)>>
         => /\ callResult = [t |-> "resolved", response |-> Response(200)]
            /\ (pc = "json" => attempt + 1 = k + 1)

C5_Witness ==
  /\ outcomes = <<NetworkError, NetworkError, Response(200)>>
  /\ callResult.t = "resolved"
  /\ pc = "json"
  /\ attempt = 2

NumImages(files) == Len(SelectSeq(files, LAMBDA f : StartsWithImage(f.type)))

\* C6: an input event whose image files would take the selection over 25
\* leaves selectedFiles and results as they are and sets the maximum-photos
\* message.
C6_OverCapRejected ==
  [][\A files \in FileLists :
       (Len(selectedFiles) + NumImages(files) > MAX_FILES /\ HandleFileChange(files))
         => /\ selectedFiles' = selectedFiles
            /\ results' = results
            /\ error' = LimitMsg]_vars

C6_Witness ==
  /\ error = LimitMsg
  /\ Len(selectedFiles) = MAX_FILES - 1

\* C7: a preprocessing failure on one file holds up no other file: the loop
\* starts only when every task has settled, and in the settled run every
\* other file is terminal, the successfully preprocessed ones after an
\* inference call of their own.
C7_FailureIsolated ==
  /\ (Publishing \/ Settled) => \A j \in 1..Len(pre) : pre[j] # Undefined
  /\ Settled =>
       \A f \in 1..Len(pre) :
         Truthy(pre[f].error) =>
           \A j \in (1..Len(pre)) \ {f} :
             /\ ~currentResults[j].processing
             /\ ~Truthy(pre[j].error)
                  => j \in requested

C7_Witness ==
  /\ Settled
  /\ Len(pre) = 2
  /\ Truthy(pre[1].error)
  /\ currentResults[2].data = PartyObject
  /\ requested = {2}

\* C8: while a run publishes, the number of terminal items in results never
\* decreases from one state to the next, whatever the user does meanwhile.
C8_TerminalCountMonotonic ==
  [][Publishing => Card(Terminal(results')) >= Card(Terminal(results))]_vars

\* C8, amended: while a run publishes, the number of terminal items never
\* decreases from one list the run publishes to the next, and the only steps
\* that lower the count in results are input events that add files to the
\* selection, which empty results until the run publishes again.
C8_RunPublicationsMonotonic ==
  [][Publishing =>
       /\ Card(Terminal(currentResults')) >= Card(Terminal(currentResults))
       /\ (results' # results /\ results' # <<>>) => results' = currentResults'
       /\ \/ Card(Terminal(results')) >= Card(Terminal(results))
          \/ /\ results' = <<>>
             /\ Len(selectedFiles') > Len(selectedFiles)
             /\ UNCHANGED currentResults]_vars

C8_Witness ==
  /\ Publishing
  /\ Len(selectedFiles) > Len(batch)
  /\ Card(Terminal(results)) >= 1
  /\ results = currentResults

\* C9: at most one inference call is in flight, it is the call of the item
\* the loop stands at, and every item before it has been merged.
C9_OneCallInFlight ==
  /\ Card(inFlight) <= 1
  /\ Publishing => inFlight = {i}
  /\ ~Publishing => inFlight = {}
  /\ \A j \in inFlight : \A m \in 1..(j - 1) : ~currentResults[m].processing

C9_Witness ==
  /\ inFlight = {2}
  /\ pc = "delay"
  /\ attempt = 1
  /\ currentResults[1].data = PartyObject

Aligned(rs, files) ==
  /\ Len(rs) = Len(files)
  /\ \A k \in 1..Len(rs) : rs[k].file = files[k]

\* C10: whatever the order in which the preprocessing tasks settle, the
\* results a run publishes have the length of its batch and results[k].file
\* is the k-th file of the batch.
C10_ResultsIndexAligned ==
  /\ (Publishing \/ Settled) => Aligned(currentResults, batch)
  /\ ((Publishing \/ Settled) /\ results # <<>>) => Aligned(results, batch)

C10_Witness ==
  /\ Publishing
  /\ order = <<2, 1>>
  /\ Len(results) = 2
  /\ Aligned(results, batch)
  /\ results[1].file # results[2].file

\* C11: within one run, an item of the run's list that has processing =
\* false is never written again, every item that is written becomes
\* terminal by that write, and every inference request, first attempt or
\* retry, is for an item that still has processing = true.
C11_OneTerminalTransition ==
  [][/\ Publishing =>
         /\ Len(currentResults') = Len(currentResults)
         /\ \A k \in 1..Len(currentResults) :
              /\ ~currentResults[k].processing
                   => currentResults'[k] = currentResults[k]
              /\ currentResults'[k] # currentResults[k]
                   => k = i /\ ~currentResults'[k].processing
     /\ \A j \in requested' \ requested : currentResults'[j].processing
     /\ pc' = "fetch" => currentResults'[i'].processing]_vars

C11_Witness ==
  /\ pc = "fetch"
  /\ attempt = 0
  /\ i = 2
  /\ requested = {1, 2}
  /\ currentResults[1].data = Null
  /\ currentResults[1].error = Str("Model response was empty or malformed.")
  /\ currentResults[2].processing

\* C12: an item whose preprocessing failed gets no inference request, and
\* from the initial results to the end of the run it is the item the initial
\* results gave it: the preprocessing error set, data null, processing false.
C12_PreprocessingFailureSkipped ==
  (Publishing \/ Settled) =>
    \A k \in 1..Len(processedFilesData) :
      Truthy(processedFilesData[k].error) =>
        /\ k \notin requested
        /\ k \notin inFlight
        /\ currentResults[k] = InitialResults(processedFilesData)[k]
        /\ currentResults[k].error = processedFilesData[k].error
        /\ currentResults[k].data = Null
        /\ ~currentResults[k].processing
        /\ results # <<>> => results[k] = currentResults[k]

C12_Witness ==
  /\ Settled
  /\ Len(processedFilesData) = 2
  /\ processedFilesData[2].error = Str("lat.toFixed is not a function")
  /\ requested = {1}
  /\ results[1].data = PartyObject
  /\ results[2].error = Str("lat.toFixed is not a function")

\* the response body is one the loop body cannot take a result from
BodyFails(body) ==
  \/ body.kind \in {"reject", "null"}
  \/ /\ body.kind = "value"
     /\ \/ ~Truthy(body.text)
        \/ ~JSONparse(body.text.v).ok

\* item k of the run's list holds an error and no data
RecordedAsError(rs, k) ==
  /\ Truthy(rs[k].error)
  /\ rs[k].data = Null
  /\ ~rs[k].processing

\* after item k the loop stands at the next item without a preprocessing
\* error, or has ended the run when there is none
LoopContinuesAfter(k) ==
  LET later == {j \in (k + 1)..Len(processedFilesData) :
                  ~Truthy(processedFilesData[j].error)}
  IN IF later = {}
     THEN pc' = "idle" /\ ~loading'
     ELSE /\ pc' = "fetch"
          /\ i' \in later
          /\ \A j \in later : i' <= j
          /\ loading'

\* C13: a click that passes the pre-run checks starts a run, and a started
\* run does not end on a failure: a call that throws (an HTTP error that is
\* not retried, or retries used up) and a body that cannot be read, is empty
\* or malformed, or does not parse, each become the error of that item, the
\* loop goes on to the next item, and the run ends only after the last one,
\* with loading false and every item terminal.
C13_RunNeverFailsAsAWhole ==
  [][/\ (AnalyzeImages /\ Len(selectedFiles) > 0 /\ ~loading /\ Truthy(apiKey))
         => pc' = "preprocess" /\ loading' /\ batch' = selectedFiles
     /\ (pc = "fetch" /\ pc' \notin {"json", "delay"} /\ currentResults' # currentResults)
         => RecordedAsError(currentResults', i) /\ LoopContinuesAfter(i)
     /\ \A body \in Bodies :
          (pc = "json" /\ BodyFails(body) /\ JsonSettle(body))
            => RecordedAsError(currentResults', i) /\ LoopContinuesAfter(i)
     /\ (pc = "json" /\ pc' # "json") => LoopContinuesAfter(i)
     /\ (pc # "idle" /\ pc' = "idle")
         => /\ ~loading'
            /\ Len(currentResults') = Len(batch')
            /\ \A k \in 1..Len(currentResults') : ~currentResults'[k].processing
            /\ \A k \in 1..Len(currentResults') :
                 Truthy(processedFilesData'[k].error)
                   => RecordedAsError(currentResults', k)]_vars

C13_Witness ==
  /\ Settled
  /\ ~loading
  /\ Len(currentResults) = 2
  /\ currentResults[1].error = Str("API call failed with status: 500")
  /\ currentResults[2].error = Str("Unexpected token in JSON")
  /\ requested = {1, 2}

\* C14: in every variant, while the credential is empty a click on Analyze
\* with files selected sets the key-missing message and starts no run:
\* loading stays false, results stay as they are, and no inference request
\* is ever issued.
C14_NoRunWithoutKey ==
  [][~Truthy(apiKey) =>
       /\ (AnalyzeImages /\ Len(selectedFiles) > 0 /\ ~loading)
            => /\ error' = KeyMissingMsg
               /\ results' = results
       /\ ~loading'
       /\ pc' = "idle"
       /\ requested' = {}]_vars

\* C15: once files have been added to the selection during a run, so that
\* the selection is no longer the batch the run was started on, results stays
\* empty of that run's items: nothing the run publishes later shows up.
C15_StaleRunDiscarded ==
  ((Publishing \/ Settled) /\ selectedFiles # batch) => results = <<>>

\* RESPONSE_SCHEMA: an object with description and matchedPassions, each
\* entry of matchedPassions with passionName and confidence
HasRequiredShape(v) ==
  /\ v.t = "object"
  /\ {"description", "matchedPassions"} \subseteq DOMAIN v.v
  /\ \A k \in 1..Len(v.v.matchedPassions) :
       {"passionName", "confidence"} \subseteq DOMAIN v.v.matchedPassions[k]

\* C16: an item is recorded as a success (processing false, error null) only
\* with data of the required shape; model text that parses to anything else
\* makes the item an error with data null.
C16_WrongShapeIsError ==
  \A k \in 1..Len(currentResults) :
    /\ (~currentResults[k].processing /\ currentResults[k].error = Null)
         => HasRequiredShape(currentResults[k].data)
    /\ ~HasRequiredShape(currentResults[k].data) => currentResults[k].data = Null

\* the step has emptied results and taken exactly the file at 0-based
\* position idx out of the selection, the others keeping their order
RemovedAt(idx) ==
  /\ results' = <<>>
  /\ Len(selectedFiles') = Len(selectedFiles) - 1
  /\ \A k \in 1..Len(selectedFiles') :
       selectedFiles'[k] = IF k <= idx THEN selectedFiles[k] ELSE selectedFiles[k + 1]

ImagesOf(files) == SelectSeq(files, LAMBDA f : f.type[1] = "image")

\* C18: an input event that brings at least one image file and stays within
\* the cap cannot end otherwise than with results empty and the selection
\* the old selection followed by the event's image files in their order.
C18_AppendResetsResults ==
  \A files \in FileLists :
    (Len(ImagesOf(files)) >= 1 /\ Len(selectedFiles) + Len(ImagesOf(files)) <= MAX_FILES)
      => ~ENABLED (HandleFileChange(files)
                    /\ ~(/\ results' = <<>>
                         /\ selectedFiles' = selectedFiles \o ImagesOf(files)))

\* a file was added during a run, after the run's first publication
C18_Witness ==
  /\ Publishing
  /\ results = <<>>
  /\ Len(selectedFiles) = Len(batch) + 1
  /\ SubSeq(selectedFiles, 1, Len(batch)) = batch
  /\ selectedFiles[Len(selectedFiles)] \notin Range(batch)

\* C19: whatever the user has done, the selection holds at most 25 files.
C19_SelectionWithinCap == Len(selectedFiles) <= MAX_FILES

\* the selection is full and an input event with one more image was refused
C19_Witness ==
  /\ Len(selectedFiles) = MAX_FILES
  /\ error = LimitMsg

\* C20: while a task of the preprocessing is pending the run has issued no
\* inference request, and in the step that issues the run's first request
\* every task has settled and results is already the run's initial list:
\* one item per file of the batch, no data, processing exactly where the
\* preprocessing succeeded.
C20_PreprocessThenPublishThenRequest ==
  [][/\ (\E j \in 1..Len(pre') : pre'[j] = Undefined)
          => requested' = {} /\ inFlight' = {} /\ pc' = "preprocess"
     /\ (requested = {} /\ requested' # {})
          => /\ pc = "preprocess"
             /\ Len(pre') = Len(batch')
             /\ \A j \in 1..Len(pre') : pre'[j] # Undefined
             /\ Len(results') = Len(batch')
             /\ \A k \in 1..Len(results') :
                  /\ results'[k].file = batch'[k]
                  /\ results'[k].data = Null
                  /\ results'[k].error = pre'[k].error
                  /\ results'[k].processing = ~Truthy(pre'[k].error)]_vars

\* the first request of a run, for the second file: the first file failed
\* in preprocessing, which ended after that of the second
C20_Witness ==
  /\ pc = "fetch"
  /\ attempt = 0
  /\ order = <<2, 1>>
  /\ requested = {2}
  /\ results = currentResults
  /\ Truthy(results[1].error)
  /\ results[2].processing

\* C21: from its first publication on, the results of a run are its own:
\* one item per file of its batch; an item whose preprocessing failed has
\* that error, no data and processing false; an item whose inference call
\* the run has not yet resolved has processing true, no data and no error,
\* whatever results held when the run was started.
C21_FreshInitialList ==
  (Publishing \/ Settled) =>
    /\ Len(results) = Len(batch)
    /\ \A k \in 1..Len(results) :
         /\ results[k].file = batch[k]
         /\ IF Truthy(pre[k].error)
            THEN /\ ~results[k].processing
                 /\ results[k].error = pre[k].error
                 /\ results[k].data = Null
            ELSE (k \notin requested \/ k \in inFlight)
                   => /\ results[k].processing
                      /\ results[k].data = Null
                      /\ results[k].error = Null

\* a run started on top of the terminal results of an earlier run has
\* published its initial list and waits for its first response
C21_Witness ==
  /\ hadResults
  /\ pc = "fetch"
  /\ attempt = 0
  /\ i = 1
  /\ Len(results) = 2
  /\ results[1].processing
  /\ results[1].data = Null
  /\ results[2].error = Str("Failed to read file")

\* the items whose inference call the run has resolved
Resolved == requested \ inFlight

\* C22: a run has published once for its initial list and once more for
\* every item whose call it has resolved; while the call of the next item
\* is running, results already is the list with every earlier item merged,
\* all files of the batch in it; so a settled run over n successfully
\* preprocessed files has published n + 1 times.
C22_PublishedAfterEveryItem ==
  /\ (Publishing \/ Settled) =>
       /\ publications = 1 + Card(Resolved)
       /\ results = currentResults
       /\ Len(results) = Len(batch)
       /\ \A k \in Resolved : ~results[k].processing
  /\ Settled =>
       publications = 1 + Card({k \in 1..Len(pre) : ~Truthy(pre[k].error)})

C22_Witness ==
  /\ Settled
  /\ Len(batch) = 2
  /\ requested = {1, 2}
  /\ publications = 3
  /\ results[1].data = PartyObject
  /\ results[2].error = Str("quota exceeded")

\* C23: a call waits only after its first and its second attempt, for
\* 1000..1499 ms and for 2000..2499 ms, whether the attempt ended with a
\* 429 response or with a failure; after the third attempt it waits no more.
C23_BackoffDelay ==
  /\ pc = "delay" =>
       /\ attempt \in {0, 1}
       /\ Len(outcomes) = attempt + 1
       /\ waited = attempt + 1
       /\ attempt = 0 => delay \in 1000..1499
       /\ attempt = 1 => delay \in 2000..2499
  /\ pc # "delay" => delay = 0
  /\ Len(outcomes) = 3 => pc # "delay" /\ waited = 2

\* the second wait of a call whose first fetch was rejected and whose
\* second got a 429 response
C23_Witness ==
  /\ pc = "delay"
  /\ attempt = 1
  /\ delay = 2499
  /\ outcomes = <<NetworkError, Response(429)>>

\* what an input event with the list files must have done: no file that is
\* not an image is in the selection; an event without image files leaves
\* the selection and results alone and shows no message; the cap is tested
\* on the image files only
NonImagesDropped(files) ==
  /\ \A f \in Range(selectedFiles') : f.type[1] = "image"
  /\ ImagesOf(files) = <<>>
       => /\ selectedFiles' = selectedFiles
          /\ results' = results
          /\ error' = Null
  /\ Len(selectedFiles) + Len(ImagesOf(files)) <= MAX_FILES
       => /\ error' = Null
          /\ Len(selectedFiles') = Len(selectedFiles) + Len(ImagesOf(files))

\* C24: no input event can end with a non-image file in the selection,
\* with a message about such a file, with such a file counted against the
\* cap, or, when it brings no image at all, with the selection or results
\* changed.
C24_NonImagesDroppedSilently ==
  /\ \A f \in Range(selectedFiles) : f.type[1] = "image"
  /\ \A files \in FileLists :
       ~ENABLED (HandleFileChange(files) /\ ~NonImagesDropped(files))

\* a finished run's results are on display and an input event with only a
\* text file leaves them, and the selection, as they are
C24_Witness ==
  /\ Settled
  /\ Terminal(results) # {}
  /\ ENABLED (/\ HandleFileChange(<<TextFile>>)
              /\ UNCHANGED <<selectedFiles, results>>
              /\ error' = Null)

\* the response body whose text is the schema-conforming string PartyText
PartyBody == ApiResult(Str(PartyText), Undefined, Undefined)

\* item d is the parsed object of PartyText
IsParty(d) ==
  /\ d.t = "object"
  /\ DOMAIN d.v = {"description", "matchedPassions"}
  /\ d.v.description = "Party"
  /\ Len(d.v.matchedPassions) = 1
  /\ DOMAIN d.v.matchedPassions[1] = {"passionName", "confidence"}
  /\ d.v.matchedPassions[1].passionName = "DJ Sets"
  /\ d.v.matchedPassions[1].confidence = "High"

\* C25: when the body of an item's response carries the text PartyText, the
\* item ends with the parsed object as data (description "Party", one
\* matched entry, "DJ Sets" with confidence "High"), error null and
\* processing false, and that is what is published.
C25_PartyRoundTrip ==
  [][(pc = "json" /\ JsonSettle(PartyBody))
       => /\ IsParty(currentResults'[i].data)
          /\ currentResults'[i].error = Null
          /\ ~currentResults'[i].processing
          /\ currentResults'[i].file = batch[i]
          /\ results' = currentResults']_vars

C25_Witness ==
  /\ Settled
  /\ Len(results) = 1
  /\ IsParty(results[1].data)
  /\ results[1].error = Null
  /\ ~results[1].processing

\* a message that is there: a string that is not empty
Present(x) == x.t = "string" /\ x.v # ""

\* C26: when the body of an ok response carries no model text, the item
\* gets as error the body's error.message if there is one, else its
\* error.details[0].message if there is one, else the fixed text, with data
\* null and processing false.
C26_ErrorMessagePrecedence ==
  [][\A body \in Bodies :
       (/\ pc = "json"
        /\ body.kind = "value"
        /\ ~Present(body.text)
        /\ JsonSettle(body))
         => /\ currentResults'[i].error =
                 IF Present(body.message) THEN body.message
                 ELSE IF Present(body.detail) THEN body.detail
                 ELSE Str("Model response was empty or malformed.")
            /\ currentResults'[i].data = Null
            /\ ~currentResults'[i].processing]_vars

\* one item got the message of the details, the other the error.message
C26_Witness ==
  /\ Settled
  /\ Len(results) = 2
  /\ results[1].error = Str("detail")
  /\ results[1].data = Null
  /\ results[2].error = Str("quota exceeded")
  /\ results[2].data = Null

\* C27: once a run has settled, every item has either data and no error or
\* an error and no data, and every item is counted by numProcessed and
\* shown as a card.
C27_ExactlyOneOfDataAndError ==
  Settled =>
    /\ \A k \in 1..Len(results) :
         \/ results[k].data # Null /\ results[k].error = Null
         \/ Truthy(results[k].error) /\ results[k].data = Null
    /\ \A k \in 1..Len(results) : Rendered(results[k])
    /\ numProcessed = Len(results)

\* C28: while a run is in progress, removeFile at any position of the
\* selection completes and cannot end otherwise than with the selection,
\* results, loading, the message and the run itself as they were.
C28_RemoveFileNoOpWhileLoading ==
  loading =>
    \A idx \in 0..(Len(selectedFiles) - 1) :
      Len(selectedFiles) <= MaxRemoveLen =>
        /\ ENABLED RemoveFile(idx)
        /\ ~ENABLED (RemoveFile(idx)
                       /\ ~UNCHANGED <<selectedFiles, results, loading, error,
                                       runVars, callVars>>)

\* a run with a terminal item on display and its second call in flight, on
\* which the remove button of the first file changes nothing
C28_Witness ==
  /\ loading
  /\ pc = "fetch"
  /\ i = 2
  /\ Len(selectedFiles) = 2
  /\ Terminal(results) = {1}
  /\ ENABLED (RemoveFile(0) /\ UNCHANGED <<selectedFiles, results>>)

\* C29: a call of analyzeImages while a run is in progress, or with nothing
\* selected, completes and cannot end otherwise than with the selection,
\* results, loading and the message as they were, the run in progress where
\* it was, and no preprocessing task or request started.
C29_AtMostOneRun ==
  (loading \/ selectedFiles = <<>>) =>
    /\ ENABLED analyzeImages
    /\ ~ENABLED (/\ analyzeImages
                 /\ ~(/\ UNCHANGED <<selectedFiles, results, loading, error>>
                      /\ loading => UNCHANGED <<runVars, callVars>>
                      /\ ~loading => /\ pc' = "idle"
                                     /\ pre' = <<>>
                                     /\ requested' = {}
                                     /\ inFlight' = {}))

\* a run waits in a backoff delay for its second item; a click on Analyze
\* changes nothing
C29_Witness ==
  /\ loading
  /\ pc = "delay"
  /\ i = 2
  /\ Len(selectedFiles) = 2
  /\ ENABLED (AnalyzeImages /\ UNCHANGED <<selVars, runVars, callVars>>)

\* C30: loading is true exactly while a run is between its start and the
\* end of its loop, and a run that has started ends: loading, once true,
\* becomes false again.
C30_LoadingEndsWithRun ==
  /\ [](loading <=> pc # "idle")
  /\ [](Settled => ~loading)
  /\ loading ~> ~loading

\* a run in which the first file could not be read and the call for the
\* second used up its retries has ended
C30_Witness ==
  /\ Settled
  /\ ~loading
  /\ Len(currentResults) = 2
  /\ currentResults[1].error = Str("Failed to read file")
  /\ currentResults[2].error = Str("Failed to fetch")

====
